---- MODULE Spec2Model ----
(***************************************************************************)
(* Model of knmi_stations.py: degree-minute parsing (degmin_to_decdeg),     *)
(* the catalog build loop (coordtable), the name-matching merge (table),    *)
(* inverse distance weighting (map, idw) and the grid loop (contour).       *)
(*                                                                          *)
(* Texts and names are sequences of one-character strings.  A float is the  *)
(* rational <<num, den>> it stands for (den > 0, lowest terms); <<1, 0>>    *)
(* and <<-1, 0>> are the infinities and <<0, 0>> is NaN.  A float operation *)
(* is the exact operation rounded to nearest, ties to even, on a mantissa   *)
(* of MantissaBits bits (53 in the program); exponents are not bounded.     *)
(***************************************************************************)
EXTENDS Integers, Sequences, FiniteSets, TLC

VARIABLES
    string, parsed, decdeg, dm_i, dm_pc,      \* degmin_to_decdeg
    rows, cframe, ct_i, ct_var, ct_pc,        \* coordtable
    meas, coords, frame, name, maxsim, maxind, t_i, t_pc,  \* table
    data, column, qx, qy, power, result, idw_pc,     \* map / idw
    gdata, gcolumn, box, gp, gx, gy, z, calls, g_i, g_j, g_pc   \* contour

dmVars == <<string, parsed, decdeg, dm_i, dm_pc>>
ctVars == <<rows, cframe, ct_i, ct_var, ct_pc>>
tVars  == <<meas, coords, frame, name, maxsim, maxind, t_i, t_pc>>
idwVars == <<data, column, qx, qy, power, result, idw_pc>>
gVars  == <<gdata, gcolumn, box, gp, gx, gy, z, calls, g_i, g_j, g_pc>>
vars == <<dmVars, ctVars, tVars, idwVars, gVars>>

\* None (an empty cell, an unset slot) and the float NaN, as tuples so that
\* they compare with the rationals
None == <<>>
NaN == <<0, 0>>

----------------------------------------------------------------------------
(* Rationals, and the float arithmetic as rounded exact arithmetic.         *)

RECURSIVE Gcd(_, _)
Gcd(a, b) == IF b = 0 THEN a ELSE Gcd(b, a % b)

Abs(a) == IF a < 0 THEN -a ELSE a

\* n/d in lowest terms; as in float arithmetic x/0 is an infinity <<+-1, 0>> and
\* 0/0 is NaN, and both propagate through the operations below
Rat(n, d) ==
    IF d = 0 THEN <<(IF n > 0 THEN 1 ELSE IF n < 0 THEN -1 ELSE 0), 0>>
    ELSE LET s == IF d < 0 THEN -1 ELSE 1
             g == Gcd(Abs(n), Abs(d))
         IN  <<(s * n) \div g, (s * d) \div g>>

\* Op on the values of its arguments, each argument evaluated once
ByValue(Op(_), a) == CHOOSE r \in { Op(v) : v \in {a} } : TRUE
ByValue2(Op(_, _), a, b) ==
    CHOOSE r \in { Op(v[1], v[2]) : v \in {<<a, b>>} } : TRUE

RInt(n) == <<n, 1>>
RAdd(a, b) ==
    ByValue2(LAMBDA u, v : Rat(u[1] * v[2] + v[1] * u[2], u[2] * v[2]), a, b)
RSub(a, b) ==
    ByValue2(LAMBDA u, v : Rat(u[1] * v[2] - v[1] * u[2], u[2] * v[2]), a, b)
RMul(a, b) == ByValue2(LAMBDA u, v : Rat(u[1] * v[1], u[2] * v[2]), a, b)
RDiv(a, b) == ByValue2(LAMBDA u, v : Rat(u[1] * v[2], u[2] * v[1]), a, b)
RLeq(a, b) == ByValue2(LAMBDA u, v : u[1] * v[2] <= v[1] * u[2], a, b)

RECURSIVE IPow(_, _)
IPow(b, e) == IF e = 0 THEN 1 ELSE b * IPow(b, e - 1)

RECURSIVE IsqrtFrom(_, _)
IsqrtFrom(n, r) == IF (r + 1) * (r + 1) > n THEN r ELSE IsqrtFrom(n, r + 1)

\* bits of a float's mantissa
MantissaBits == 5

MantissaEnd == IPow(2, MantissaBits)

\* n/d > 0 as <<n', d', e>> with n/d = (n'/d') * 2^e and n'/d' in
\* [2^(MantissaBits-1), 2^MantissaBits)
RECURSIVE Normal(_, _, _)
Normal(n, d, e) ==
    IF n >= d * MantissaEnd THEN Normal(n, 2 * d, e + 1)
    ELSE IF 2 * n < d * MantissaEnd THEN Normal(2 * n, d, e - 1)
    ELSE <<n, d, e>>

Scaled(m, e) == IF e >= 0 THEN Rat(m * IPow(2, e), 1) ELSE Rat(m, IPow(2, -e))

\* the mantissa t[1]/t[2] rounded to a whole number, ties to the even one
Nearest(t) ==
    LET m == t[1] \div t[2]
        rem == t[1] % t[2]
    IN  IF 2 * rem > t[2] \/ (2 * rem = t[2] /\ m % 2 = 1) THEN m + 1 ELSE m

\* the float nearest to n/d > 0
RoundPos(n, d) ==
    ByValue(LAMBDA t : Scaled(Nearest(t), t[3]), Normal(n, d, 0))

\* rounding of an exact result: zero, the infinities and NaN stay
Round(r) ==
    IF r[2] = 0 \/ r[1] = 0 THEN r
    ELSE IF r[1] > 0 THEN RoundPos(r[1], r[2])
    ELSE ByValue(LAMBDA v : <<-v[1], v[2]>>, RoundPos(-r[1], r[2]))

Fl(r) == ByValue(Round, r)

FAdd(a, b) == Fl(RAdd(a, b))
FSub(a, b) == Fl(RSub(a, b))
FMul(a, b) == Fl(RMul(a, b))
FDiv(a, b) == Fl(RDiv(a, b))

\* n/d > 0 as <<n', d', k>> with n/d = (n'/d') * 4^k and n'/d' in
\* [4^(MantissaBits-1), 4^MantissaBits)
RECURSIVE Normal4(_, _, _)
Normal4(n, d, k) ==
    IF n >= d * MantissaEnd * MantissaEnd THEN Normal4(n, 4 * d, k + 1)
    ELSE IF 4 * n < d * MantissaEnd * MantissaEnd THEN Normal4(4 * n, d, k - 1)
    ELSE <<n, d, k>>

\* the square root of t[1]/t[2] rounded to a whole number (no tie can occur)
NearestRoot(t) ==
    ByValue(LAMBDA m : IF 4 * t[1] > (4 * m * m + 4 * m + 1) * t[2]
                       THEN m + 1 ELSE m,
            IsqrtFrom(t[1] \div t[2], MantissaEnd \div 2))

\* the correctly rounded square root of a float q >= 0
SqrtValue(q) ==
    IF q[1] = 0 \/ q[2] = 0 THEN q
    ELSE ByValue(LAMBDA t : Scaled(NearestRoot(t), t[3]), Normal4(q[1], q[2], 0))

FSqrt(q) == ByValue(SqrtValue, q)

----------------------------------------------------------------------------
(* degmin_to_decdeg                                                         *)

Digits == {"0", "1", "2", "5"}
Whitespace == {" "}

DigitVal(c) == CASE c = "0" -> 0 [] c = "1" -> 1 [] c = "2" -> 2 [] c = "5" -> 5

\* float() of a two-digit group
Float(grp) == Fl(RInt(10 * DigitVal(grp[1]) + DigitVal(grp[2])))

IsDigitAt(s, i) == i >= 1 /\ i <= Len(s) /\ s[i] \in Digits

\* \s* is greedy: the first position at or after pos that holds no whitespace
RECURSIVE SkipWs(_, _)
SkipWs(s, pos) ==
    IF pos <= Len(s) /\ s[pos] \in Whitespace THEN SkipWs(s, pos + 1) ELSE pos

\* re.match of \s*(\d{2})\s*(\d{2})\s*.?\s* at pos: the two groups and the end
\* of the match, or ok = FALSE.  No backtracking of a \s* can help: the character
\* after a shorter run of whitespace is whitespace, never a digit.
MatchAt(s, pos) ==
    LET a == SkipWs(s, pos)
        b == SkipWs(s, a + 2)
        c == SkipWs(s, b + 2)
        d == IF c <= Len(s) THEN c + 1 ELSE c      \* .? takes one character
        e == SkipWs(s, d)
    IN  IF IsDigitAt(s, a) /\ IsDigitAt(s, a + 1)
           /\ IsDigitAt(s, b) /\ IsDigitAt(s, b + 1)
        THEN [ok |-> TRUE, deg |-> <<s[a], s[a + 1]>>, min |-> <<s[b], s[b + 1]>>,
              end |-> e]
        ELSE [ok |-> FALSE, deg |-> <<>>, min |-> <<>>, end |-> pos]

\* re.findall: leftmost non-overlapping matches, scanning from pos
RECURSIVE FindAllFrom(_, _)
FindAllFrom(s, pos) ==
    IF pos > Len(s) THEN <<>>
    ELSE LET m == MatchAt(s, pos)
         IN  IF ~m.ok THEN FindAllFrom(s, pos + 1)
             ELSE <<<<m.deg, m.min>>>> \o FindAllFrom(s, m.end)

FindAll(s) == FindAllFrom(s, 1)

\* decdeg[i] = float(parsed[i][0]) + float(parsed[i][1])/60
DecDeg(grp) == FAdd(Float(grp[1]), FDiv(Float(grp[2]), RInt(60)))

\* the whole function, as coordtable calls it
degmin_to_decdeg(s) ==
    LET p == FindAll(s) IN [i \in 1..Len(p) |-> DecDeg(p[i])]

MaxTokens == 4

Tokens == { <<"5", "2", " ", "1", "0">>, <<"0", "5", " ", "2", "0">>,
            <<" ">>, <<",">>, <<"1">>, <<"N">> }

RECURSIVE Flatten(_)
Flatten(ts) == IF ts = <<>> THEN <<>> ELSE Head(ts) \o Flatten(Tail(ts))

Texts == { Flatten(ts) : ts \in UNION { [1..n -> Tokens] : n \in 0..MaxTokens } }

dmIdle ==
    /\ string = <<>> /\ parsed = <<>> /\ decdeg = <<>> /\ dm_i = 0
    /\ dm_pc = "idle"
ctIdle == rows = <<>> /\ cframe = <<>> /\ ct_i = 0 /\ ct_var = "lat" /\ ct_pc = "idle"
tIdle ==
    /\ meas = <<>> /\ coords = <<>> /\ frame = <<>> /\ name = <<>> /\ maxsim = RInt(0)
    /\ maxind = -1 /\ t_i = 0 /\ t_pc = "idle"
idwIdle ==
    /\ data = <<>> /\ column = "temp" /\ qx = RInt(0) /\ qy = RInt(0)
    /\ power = 0 /\ result = None /\ idw_pc = "idle"
gIdle ==
    /\ gdata = <<>> /\ gcolumn = "temp" /\ box = <<0, 0, 0, 0>> /\ gp = 0
    /\ gx = <<>> /\ gy = <<>> /\ z = <<>>
    /\ calls = <<>> /\ g_i = 0 /\ g_j = 0 /\ g_pc = "idle"

InitParse ==
    /\ string \in Texts
    /\ parsed = <<>> /\ decdeg = <<>> /\ dm_i = 0 /\ dm_pc = "findall"
    /\ ctIdle /\ tIdle /\ idwIdle /\ gIdle

\* line 26-27
DmFindAll ==
    /\ dm_pc = "findall"
    /\ parsed' = FindAll(string)
    /\ decdeg' = [i \in 1..Len(FindAll(string)) |-> None]
    /\ dm_i' = 1
    /\ dm_pc' = "loop"
    /\ UNCHANGED <<string, ctVars, tVars, idwVars, gVars>>

\* line 28-33, one iteration
DmConvert ==
    /\ dm_pc = "loop" /\ dm_i <= Len(parsed)
    /\ decdeg' = [decdeg EXCEPT ![dm_i] = DecDeg(parsed[dm_i])]
    /\ dm_i' = dm_i + 1
    /\ UNCHANGED <<string, parsed, dm_pc, ctVars, tVars, idwVars, gVars>>

\* line 34
DmReturn ==
    /\ dm_pc = "loop" /\ dm_i > Len(parsed)
    /\ dm_pc' = "done"
    /\ UNCHANGED <<string, parsed, decdeg, dm_i, ctVars, tVars, idwVars, gVars>>

NextParse == DmFindAll \/ DmConvert \/ DmReturn

SpecParse == InitParse /\ [][NextParse]_vars

\* A well-formed pair of a text: two digits, any whitespace, two digits; the
\* pairs of a text are read left to right without overlap.
PairAt(s, i) ==
    /\ IsDigitAt(s, i) /\ IsDigitAt(s, i + 1)
    /\ IsDigitAt(s, SkipWs(s, i + 2)) /\ IsDigitAt(s, SkipWs(s, i + 2) + 1)

RECURSIVE WellFormedPairs(_, _)
WellFormedPairs(s, pos) ==
    IF pos > Len(s) THEN <<>>
    ELSE IF PairAt(s, pos)
         THEN LET j == SkipWs(s, pos + 2)
              IN  <<FAdd(Float(<<s[pos], s[pos + 1]>>),
                         FDiv(Float(<<s[j], s[j + 1]>>), RInt(60)))>>
                  \o WellFormedPairs(s, j + 2)
         ELSE WellFormedPairs(s, pos + 1)

\* C7: degmin_to_decdeg returns, for a text holding k well-formed DD MM pairs,
\* exactly k values in source order, each degrees + minutes/60, and the empty
\* sequence for a text holding no such pair.
C7_OneValuePerPair ==
    dm_pc = "done" => decdeg = WellFormedPairs(string, 1)

----------------------------------------------------------------------------
(* coordtable: the scraped six-cell rows (the column names row first), then  *)
(* frame.drop(0) and the conversion loop over lat and lon.                   *)

MaxCatRows == 2

\* the text of a coordinate cell; an empty cell is None (lines 48-50)
CoordTexts == { <<"5", "2", " ", "1", "0">>, <<"0", "5", " ", "2", "0">>,
                <<"N">>, None }

HeaderRow == [sid |-> 0, lat |-> <<"N">>, lon |-> <<"N">>]

RawRows ==
    UNION { { <<HeaderRow>> \o [i \in 1..n |-> [sid |-> i, lat |-> c[i][1],
                                                  lon |-> c[i][2]]]
              : c \in [1..n -> CoordTexts \X CoordTexts] }
            : n \in 0..MaxCatRows }

InitCatalog ==
    /\ rows \in RawRows
    /\ cframe = rows /\ ct_i = 0 /\ ct_var = "lat" /\ ct_pc = "scraped"
    /\ dmIdle /\ tIdle /\ idwIdle /\ gIdle

\* line 53: the rows keep their labels 1..len(frame)
CtDropHeader ==
    /\ ct_pc = "scraped"
    /\ cframe' = Tail(cframe)
    /\ ct_i' = 1 /\ ct_var' = "lat"
    /\ ct_pc' = "loop"
    /\ UNCHANGED <<rows, dmVars, tVars, idwVars, gVars>>

CtAdvance ==
    /\ ct_i' = IF ct_var = "lon" THEN ct_i + 1 ELSE ct_i
    /\ ct_var' = IF ct_var = "lat" THEN "lon" ELSE "lat"

\* line 57, a cell with at least one pair
CtConvert ==
    /\ ct_pc = "loop" /\ ct_i <= Len(cframe)
    /\ cframe[ct_i][ct_var] # None
    /\ degmin_to_decdeg(cframe[ct_i][ct_var]) # <<>>
    /\ cframe' = [cframe EXCEPT ![ct_i][ct_var] = degmin_to_decdeg(@)[1]]
    /\ CtAdvance
    /\ UNCHANGED <<rows, ct_pc, dmVars, tVars, idwVars, gVars>>

\* line 57, re.findall on None: TypeError leaves coordtable
CtTypeError ==
    /\ ct_pc = "loop" /\ ct_i <= Len(cframe)
    /\ cframe[ct_i][ct_var] = None
    /\ ct_pc' = "TypeError"
    /\ UNCHANGED <<rows, cframe, ct_i, ct_var, dmVars, tVars, idwVars, gVars>>

\* line 57, [0] of an empty list: IndexError leaves coordtable
CtIndexError ==
    /\ ct_pc = "loop" /\ ct_i <= Len(cframe)
    /\ cframe[ct_i][ct_var] # None
    /\ degmin_to_decdeg(cframe[ct_i][ct_var]) = <<>>
    /\ ct_pc' = "IndexError"
    /\ UNCHANGED <<rows, cframe, ct_i, ct_var, dmVars, tVars, idwVars, gVars>>

\* line 58
CtReturn ==
    /\ ct_pc = "loop" /\ ct_i > Len(cframe)
    /\ ct_pc' = "done"
    /\ UNCHANGED <<rows, cframe, ct_i, ct_var, dmVars, tVars, idwVars, gVars>>

NextCatalog == CtDropHeader \/ CtConvert \/ CtTypeError \/ CtIndexError \/ CtReturn

SpecCatalog == InitCatalog /\ [][NextCatalog]_vars

\* the data rows whose lat and lon both parse, converted
WellFormedCell(c) == c # None /\ degmin_to_decdeg(c) # <<>>

RECURSIVE ConvertedRows(_)
ConvertedRows(rs) ==
    IF rs = <<>> THEN <<>>
    ELSE LET r == Head(rs)
         IN  (IF WellFormedCell(r.lat) /\ WellFormedCell(r.lon)
              THEN <<[sid |-> r.sid, lat |-> degmin_to_decdeg(r.lat)[1],
                      lon |-> degmin_to_decdeg(r.lon)[1]]>>
              ELSE <<>>) \o ConvertedRows(Tail(rs))

\* C2: a catalog row with a malformed or empty lat or lon does not abort
\* coordtable: that station is left out and every well-formed row is still
\* converted and returned.
C2_MalformedRowExcluded ==
    /\ ct_pc \notin {"TypeError", "IndexError"}
    /\ ct_pc = "done" => cframe = ConvertedRows(Tail(rows))

----------------------------------------------------------------------------
(* difflib.SequenceMatcher(None, a, b).ratio(), no junk (autojunk needs a   *)
(* second sequence of 200 elements or more).                                *)

\* length of the common run of a from i and b from j, inside a[..ahi], b[..bhi]
RECURSIVE RunLen(_, _, _, _, _, _)
RunLen(a, b, i, j, ahi, bhi) ==
    IF i <= ahi /\ j <= bhi /\ a[i] = b[j]
    THEN 1 + RunLen(a, b, i + 1, j + 1, ahi, bhi)
    ELSE 0

\* find_longest_match: the longest block of a[alo..ahi] and b[blo..bhi]; of
\* the longest, the one starting earliest in a, then earliest in b
find_longest_match(a, b, alo, ahi, blo, bhi) ==
    LET starts == (alo..ahi) \X (blo..bhi)
        len(st) == RunLen(a, b, st[1], st[2], ahi, bhi)
        best == CHOOSE st \in starts :
                    \A o \in starts :
                        \/ len(o) < len(st)
                        \/ /\ len(o) = len(st)
                           /\ (st[1] < o[1] \/ (st[1] = o[1] /\ st[2] <= o[2]))
    IN  [i |-> best[1], j |-> best[2], size |-> len(best)]

\* get_matching_blocks, summed: the block, then the pieces left and right of it
RECURSIVE Matches(_, _, _, _, _, _)
Matches(a, b, alo, ahi, blo, bhi) ==
    IF alo > ahi \/ blo > bhi THEN 0
    ELSE LET m == find_longest_match(a, b, alo, ahi, blo, bhi)
         IN  IF m.size = 0 THEN 0
             ELSE m.size
                  + Matches(a, b, alo, m.i - 1, blo, m.j - 1)
                  + Matches(a, b, m.i + m.size, ahi, m.j + m.size, bhi)

\* ratio(): 2.0 * matches / length, and 1.0 for two empty sequences
ratio(a, b) ==
    IF Len(a) + Len(b) = 0 THEN RInt(1)
    ELSE Rat(2 * Matches(a, b, 1, Len(a), 1, Len(b)), Len(a) + Len(b))

DenHelder == <<"D", "e", "n", " ", "H", "e", "l", "d", "e", "r">>
DeKooy == <<"D", "e", " ", "K", "o", "o", "y">>
Eelde == <<"E", "e", "l", "d", "e">>
Groningen == <<"G", "r", "o", "n", "i", "n", "g", "e", "n">>

\* station names of the measurement table and of the coordinates table
MeasNames == { DenHelder, Eelde, <<"a", "b">>, <<"x">> }
CatNames == { DeKooy, DenHelder, Groningen, <<"b", "a">>, <<"a", "c">> }
AllNames == MeasNames \cup CatNames

\* the scores of every pair of names, computed once
SimTable == [a \in AllNames |-> [b \in AllNames |-> ratio(a, b)]]

----------------------------------------------------------------------------
(* table: the merge of the measurement rows with the coordinates table.     *)

MaxCatalog == 3
MaxMeasRows == 2

DigitChar == <<"1", "2", "3", "4", "5", "6", "7", "8", "9">>

\* the coordinates table as coordtable returns it: labels 1..n, unique sids
Catalogs ==
    UNION { { [j \in 1..n |-> [sid |-> <<"2", DigitChar[j]>>, name |-> c[j],
                               lat |-> RInt(50 + j), lon |-> RInt(3 + j)]]
              : c \in [1..n -> CatNames] }
            : n \in 0..MaxCatalog }

\* the scraped measurement rows (lines 90-101): sid, lat, lon are placeholders
Measurements ==
    UNION { { [i \in 1..n |-> [name |-> c[i], temp |-> RInt(10 + i)]]
              : c \in [1..n -> MeasNames] }
            : n \in 0..MaxMeasRows }

InitTable ==
    /\ meas \in Measurements
    /\ coords \in Catalogs
    /\ frame = [i \in 1..Len(meas) |->
                   [sid |-> None, lat |-> None, lon |-> None,
                    name |-> meas[i].name, temp |-> meas[i].temp]]
    /\ name = <<>> /\ maxsim = RInt(0) /\ maxind = -1
    /\ t_i = 1 /\ t_pc = "loop"
    /\ dmIdle /\ ctIdle /\ idwIdle /\ gIdle

\* lines 110, 113-117: the dictionary is walked in insertion order
modify_names == << <<DenHelder, DeKooy>>, <<Eelde, Groningen>> >>

RECURSIVE ApplyFrom(_, _)
ApplyFrom(nm, k) ==
    IF k > Len(modify_names) THEN nm
    ELSE ApplyFrom(IF nm = modify_names[k][1] THEN modify_names[k][2] ELSE nm, k + 1)

ApplyAliasNone(nm) == nm

ApplyAlias(nm) == ApplyFrom(nm, 1)

\* line 123
sim(nm, cname) == SimTable[nm][cname]

\* lines 120-126 from catalog label j on
RECURSIVE Scan(_, _, _, _, _)
Scan(nm, cs, j, ms, mi) ==
    IF j > Len(cs) THEN [maxsim |-> ms, maxind |-> mi]
    ELSE IF ~RLeq(sim(nm, cs[j].name), ms)
         THEN Scan(nm, cs, j + 1, sim(nm, cs[j].name), j)
         ELSE Scan(nm, cs, j + 1, ms, mi)

Match(nm, cs) == Scan(nm, cs, 1, RInt(0), -1)

\* a frame keyed by station id: an earlier row of the same sid is replaced
AttachKeyed(fr, i, entry) ==
    [k \in 1..Len(fr) |->
        IF k = i \/ fr[k].sid = entry.sid
        THEN [fr[i] EXCEPT !.sid = entry.sid, !.lat = entry.lat, !.lon = entry.lon]
        ELSE fr[k]]

\* line 129
Attach(fr, i, entry) ==
    [fr EXCEPT ![i] = [@ EXCEPT !.sid = entry.sid, !.lat = entry.lat,
                                !.lon = entry.lon]]

\* lines 112-129 for row t_i, a catalog label found
TMatchRow ==
    /\ t_pc = "loop" /\ t_i <= Len(frame)
    /\ LET nm == ApplyAlias(frame[t_i].name)
           m == Match(nm, coords)
       IN  /\ m.maxind \in 1..Len(coords)
           /\ name' = nm /\ maxsim' = m.maxsim /\ maxind' = m.maxind
           /\ frame' = Attach(frame, t_i, coords[m.maxind])
    /\ t_i' = t_i + 1
    /\ UNCHANGED <<meas, coords, t_pc, dmVars, ctVars, idwVars, gVars>>

\* lines 112-129 for row t_i, maxind still -1: coords.loc[-1, ...] is a KeyError
TKeyError ==
    /\ t_pc = "loop" /\ t_i <= Len(frame)
    /\ LET nm == ApplyAlias(frame[t_i].name)
           m == Match(nm, coords)
       IN  /\ m.maxind \notin 1..Len(coords)
           /\ name' = nm /\ maxsim' = m.maxsim /\ maxind' = m.maxind
    /\ t_pc' = "KeyError"
    /\ UNCHANGED <<meas, coords, frame, t_i, dmVars, ctVars, idwVars, gVars>>

\* lines 130-137: sid becomes the index (not verified unique), lat and lon
\* become the point (lon, lat)
TFinish ==
    /\ t_pc = "loop" /\ t_i > Len(frame)
    /\ frame' = [i \in 1..Len(frame) |->
                    [sid |-> frame[i].sid, name |-> frame[i].name,
                     temp |-> frame[i].temp,
                     coords |-> <<frame[i].lon, frame[i].lat>>]]
    /\ t_pc' = "done"
    /\ UNCHANGED <<meas, coords, name, maxsim, maxind, t_i, dmVars, ctVars,
                   idwVars, gVars>>

NextTable == TMatchRow \/ TKeyError \/ TFinish

SpecTable == InitTable /\ [][NextTable]_vars

\* the row the last TMatchRow or TKeyError step worked on
RowMatched == t_pc = "loop" /\ t_i > 1
RowFailed == t_pc = "KeyError"

HasEntry(nm) == \E j \in 1..Len(coords) : coords[j].name = nm

\* the first catalog label among those of the greatest score
FirstGreatest(nm) ==
    CHOOSE j \in 1..Len(coords) :
        \A k \in 1..Len(coords) :
            /\ RLeq(sim(nm, coords[k].name), sim(nm, coords[j].name))
            /\ sim(nm, coords[k].name) = sim(nm, coords[j].name) => j <= k

\* C1: with a non-empty catalog every measurement row resolves to exactly one
\* catalog entry and gets its station id; matching never fails and the id is
\* never null, also when every score is 0.
C1_MatchNeverFails ==
    Len(coords) > 0 =>
        /\ ~RowFailed
        /\ RowMatched => /\ maxind \in 1..Len(coords)
                         /\ frame[t_i - 1].sid = coords[maxind].sid
        /\ t_pc = "done" => \A i \in 1..Len(frame) : frame[i].sid # None

\* C5: the matcher selects the entry of the greatest score, the first in
\* catalog order among those that share it.
C5_FirstGreatestSelected ==
    (Len(coords) > 0 /\ (RowMatched \/ RowFailed)) => maxind = FirstGreatest(name)

\* C6: a row named "Den Helder" is scored as "De Kooy": with a "De Kooy" entry
\* in the catalog it is matched to a "De Kooy" entry whatever the others are;
\* a name outside the alias table is scored unchanged.
C6_AliasBeforeScoring ==
    /\ RowMatched =>
          LET raw == frame[t_i - 1].name
          IN  /\ (raw = DenHelder /\ HasEntry(DeKooy)) =>
                     /\ name = DeKooy
                     /\ coords[maxind].name = DeKooy
                     /\ frame[t_i - 1].sid = coords[maxind].sid
              /\ raw \notin {DenHelder, Eelde} => name = raw
    /\ RowFailed =>
          LET raw == frame[t_i].name
          IN  /\ ~(raw = DenHelder /\ HasEntry(DeKooy))
              /\ raw \notin {DenHelder, Eelde} => name = raw

\* a "Den Helder" row matched to "De Kooy" past an earlier "Den Helder" entry
C6_Witness ==
    /\ RowMatched
    /\ frame[t_i - 1].name = DenHelder
    /\ maxind > 1
    /\ coords[1].name = DenHelder
    /\ coords[maxind].name = DeKooy

\* C10: the merge keeps one record per measurement row, each with its own
\* measurement fields; rows of the same station id are both kept.
C10_OneRecordPerRow ==
    /\ Len(frame) = Len(meas)
    /\ \A i \in 1..Len(frame) :
          /\ frame[i].name = meas[i].name
          /\ frame[i].temp = meas[i].temp
    /\ t_pc = "done" => \A i \in 1..Len(frame) : frame[i].sid # None

\* two records of the same station id in the returned frame
C10_Witness ==
    /\ t_pc = "done"
    /\ \E i, k \in 1..Len(frame) :
          /\ i < k
          /\ frame[i].sid = frame[k].sid
          /\ frame[i].temp # frame[k].temp

----------------------------------------------------------------------------
(* map (the dropna of line 160) and idw.  A station row carries its point    *)
(* (x = lon, y = lat) and the numeric columns temp and rel_humid.            *)

MaxStations == 2

\* (9, 12) is at the distance 15 of both other points
Points == { <<0, 0>>, <<18, 0>>, <<9, 12>> }
Powers == { 1, 2 }
Columns == { "temp", "rel_humid" }

\* the numeric cells of a measurement row; NaN is a cell that was empty
Readings == { [temp |-> RInt(8), rel_humid |-> RInt(50)],
              [temp |-> RInt(12), rel_humid |-> NaN],
              [temp |-> NaN, rel_humid |-> RInt(50)] }

StationRow(pt, r) ==
    [x |-> pt[1], y |-> pt[2], temp |-> r.temp, rel_humid |-> r.rel_humid]

StationRows == { StationRow(pt, r) : pt \in Points, r \in Readings }

Frames == UNION { [1..n -> StationRows] : n \in 0..MaxStations }

\* line 146: the default of map's dropifna
dropifna == { "temp" }

IsNull(v) == v = NaN

\* line 160
dropna(dat, subset) ==
    SelectSeq(dat, LAMBDA r : \A c \in subset : ~IsNull(r[c]))

\* lines 179-182 and 190: the planar distance of the point (x, y) to a station
Dist(r, x, y) ==
    LET dx == FSub(x, RInt(r.x))
        dy == FSub(y, RInt(r.y))
    IN  FSqrt(FAdd(FMul(dx, dx), FMul(dy, dy)))

\* x**p for a whole p, taken as correctly rounded
DistPow(d, p) == ByValue(LAMBDA v : Fl(Rat(IPow(v[1], p), IPow(v[2], p))), d)

\* line 190: the distance of every station, in the order of the frame
RECURSIVE Distances(_, _, _)
Distances(dat, x, y) ==
    IF dat = <<>> THEN <<>>
    ELSE <<Dist(Head(dat), x, y)>> \o Distances(Tail(dat), x, y)

\* weights without the test of line 192
WeightsNoZeroCase(dat, x, y, p) ==
    LET dist == Distances(dat, x, y)
    IN  [i \in 1..Len(dat) |-> FDiv(RInt(1), DistPow(dist[i], p))]

\* lines 191-193
Weights(dat, x, y, p) ==
    LET dist == Distances(dat, x, y)
    IN  IF \E i \in 1..Len(dat) : dist[i] = RInt(0)
        THEN [i \in 1..Len(dat) |-> IF dist[i] = RInt(0) THEN RInt(1) ELSE RInt(0)]
        ELSE [i \in 1..Len(dat) |-> FDiv(RInt(1), DistPow(dist[i], p))]

\* the built-in sum: from 0, left to right
RECURSIVE SumFrom(_, _)
SumFrom(acc, xs) ==
    IF xs = <<>> THEN acc ELSE SumFrom(FAdd(acc, Head(xs)), Tail(xs))

Sum(xs) == SumFrom(RInt(0), xs)

\* line 194: 0/0 of an empty frame is two ints, a ZeroDivisionError
idw(dat, x, y, p, col) ==
    LET w == Weights(dat, x, y, p)
        wv == [i \in 1..Len(dat) |-> FMul(w[i], dat[i][col])]
    IN  IF dat = <<>> THEN [raised |-> TRUE, value |-> None]
        ELSE [raised |-> FALSE, value |-> FDiv(Sum(wv), Sum(w))]

InitIdw ==
    /\ data \in Frames
    /\ column \in Columns
    /\ \E pt \in Points : qx = RInt(pt[1]) /\ qy = RInt(pt[2])
    /\ power \in Powers
    /\ result = None /\ idw_pc = "table"
    /\ dmIdle /\ ctIdle /\ tIdle /\ gIdle

\* lines 159-160: map() drops the stations with a null in dropifna
IdwMap ==
    /\ idw_pc = "table"
    /\ data' = dropna(data, dropifna)
    /\ idw_pc' = "mapped"
    /\ UNCHANGED <<column, qx, qy, power, result, dmVars, ctVars, tVars, gVars>>

\* idw on the output of table() or of map()
IdwCall ==
    /\ idw_pc \in {"table", "mapped"}
    /\ LET r == idw(data, qx, qy, power, column)
       IN  ~r.raised /\ result' = r.value
    /\ idw_pc' = "done"
    /\ UNCHANGED <<data, column, qx, qy, power, dmVars, ctVars, tVars, gVars>>

IdwZeroDivision ==
    /\ idw_pc \in {"table", "mapped"}
    /\ idw(data, qx, qy, power, column).raised
    /\ idw_pc' = "ZeroDivisionError"
    /\ UNCHANGED <<data, column, qx, qy, power, result, dmVars, ctVars, tVars,
                   gVars>>

NextIdw == IdwMap \/ IdwCall \/ IdwZeroDivision

SpecIdw == InitIdw /\ [][NextIdw]_vars

\* the observations idw averages over: those at the query point when there
\* are any, all of them otherwise
RowAtQuery(r) == RInt(r.x) = qx /\ RInt(r.y) = qy
AtQuery(i) == RowAtQuery(data[i])
AnyAtQuery == \E i \in 1..Len(data) : AtQuery(i)
Used == IF AnyAtQuery THEN { i \in 1..Len(data) : AtQuery(i) } ELSE 1..Len(data)
UsedNonNull == { i \in Used : ~IsNull(data[i][column]) }

\* the used observations with a value, in the order of the frame
NonNullUsedRows ==
    SelectSeq(data, LAMBDA r : ~IsNull(r[column]) /\ (AnyAtQuery => RowAtQuery(r)))

IsNumber(r) == Len(r) = 2 /\ r[2] > 0

\* C3: null values of the column are left out of the average: with a non-null
\* used observation the estimate is the weighted average of the non-null used
\* observations alone; with none it is an invalid marker (NaN or an error),
\* never 0.
C3_NullsExcluded ==
    /\ idw_pc = "done" =>
          IF UsedNonNull # {}
          THEN result = idw(NonNullUsedRows, qx, qy, power, column).value
          ELSE ~IsNumber(result)
    /\ idw_pc = "ZeroDivisionError" => UsedNonNull = {}

\* C4: at the point of exactly one station idw returns that station's value
\* of the column, whatever the other stations are.
C4_ExactAtStation ==
    (idw_pc = "done" /\ Cardinality({ i \in 1..Len(data) : AtQuery(i) }) = 1)
        => \A i \in 1..Len(data) : AtQuery(i) => result = data[i][column]

InRange(r, S) ==
    /\ IsNumber(r)
    /\ \E i \in S : RLeq(data[i][column], r)
    /\ \E i \in S : RLeq(r, data[i][column])

Equidistant8And12 ==
    /\ Len(data) = 2
    /\ Dist(data[1], qx, qy) = Dist(data[2], qx, qy)
    /\ Dist(data[1], qx, qy) # RInt(0)
    /\ { data[1][column], data[2][column] } = { RInt(8), RInt(12) }
    /\ power = 1

NoNullValue == data # <<>> /\ \A i \in 1..Len(data) : ~IsNull(data[i][column])

\* C8 as the specification states it: with a non-empty frame of non-null
\* values the estimate lies between the least and the greatest value of the
\* observations used, and two equidistant stations of 8.0 and 12.0 with power 1
\* give 10.0.
C8_WithinObservedRange ==
    NoNullValue =>
        /\ idw_pc # "ZeroDivisionError"
        /\ idw_pc = "done" =>
              /\ InRange(result, Used)
              /\ Equidistant8And12 => result = RInt(10)

RAbs(r) == <<Abs(r[1]), r[2]>>

\* the greatest magnitude of the values of S
RECURSIVE MaxAbs(_)
MaxAbs(S) ==
    IF S = {} THEN RInt(0)
    ELSE LET i == CHOOSE k \in S : TRUE
             m == MaxAbs(S \ {i})
         IN  IF RLeq(m, RAbs(data[i][column])) THEN RAbs(data[i][column]) ELSE m

\* the rounding error n products, n - 1 additions in each sum and one division
\* can add up to: (2n + 2) * 2^-MantissaBits * max |value|
Tolerance(S) ==
    RMul(Rat(2 * Len(data) + 2, IPow(2, MantissaBits)), MaxAbs(S))

InRangeRounded(r, S) ==
    LET tol == Tolerance(S)
    IN  /\ IsNumber(r)
        /\ \E i \in S : RLeq(RSub(data[i][column], tol), r)
        /\ \E i \in S : RLeq(r, RAdd(data[i][column], tol))

\* C8, amended: with a non-empty frame of non-null values idw returns a number
\* that lies between the least and the greatest value of the observations used
\* up to the rounding error of the float arithmetic, and two equidistant
\* stations of 8.0 and 12.0 with power 1 give 10.0 up to that error.
C8_WithinRangeUpToRounding ==
    NoNullValue =>
        /\ idw_pc # "ZeroDivisionError"
        /\ idw_pc = "done" =>
              /\ InRangeRounded(result, Used)
              /\ Equidistant8And12 =>
                    /\ RLeq(RSub(RInt(10), Tolerance(Used)), result)
                    /\ RLeq(result, RAdd(RInt(10), Tolerance(Used)))

\* an estimate of two equidistant stations of 8.0 and 12.0
C8_Witness ==
    /\ idw_pc = "done"
    /\ Equidistant8And12
    /\ IsNumber(result)

----------------------------------------------------------------------------
(* contour: map(), the two coordinate vectors and the grid loop.            *)

\* the length of the x and y vectors (100 in lines 218-219)
GridN == 3

\* minx, maxx, miny, maxy of the Netherlands geometry
Boxes == { <<0, 6, 0, 8>>, <<3, 6, 0, 4>> }
GridPowers == { 2 }

\* np.linspace(start, stop, num): arange(num) * step + start with
\* step = (stop - start) / (num - 1), and the last element set to stop
linspace(start, stop, num) ==
    LET step == FDiv(FSub(RInt(stop), RInt(start)), RInt(num - 1))
    IN  [k \in 1..num |->
            IF k = num THEN RInt(stop)
            ELSE FAdd(FMul(RInt(k - 1), step), RInt(start))]

\* frames for the grid: none, one and two stations, a station on a node of
\* the grid, and stations that lack the temperature or the humidity
GridFrames ==
    LET full == [temp |-> RInt(8), rel_humid |-> RInt(50)]
        dry == [temp |-> RInt(12), rel_humid |-> NaN]
        cold == [temp |-> NaN, rel_humid |-> RInt(50)]
    IN  { <<>>,
          <<StationRow(<<3, 4>>, full)>>,
          <<StationRow(<<0, 0>>, cold)>>,
          <<StationRow(<<0, 0>>, full), StationRow(<<6, 0>>, dry)>>,
          <<StationRow(<<6, 0>>, dry), StationRow(<<3, 4>>, full)>>,
          <<StationRow(<<3, 4>>, cold), StationRow(<<0, 0>>, dry)>>,
          <<StationRow(<<0, 0>>, dry), StationRow(<<6, 0>>, full),
            StationRow(<<3, 4>>, dry)>> }

InitGrid ==
    /\ gdata \in GridFrames
    /\ gcolumn \in Columns
    /\ box \in Boxes
    /\ gp \in GridPowers
    /\ gx = <<>> /\ gy = <<>> /\ z = <<>> /\ calls = <<>>
    /\ g_i = 0 /\ g_j = 0 /\ g_pc = "start"
    /\ dmIdle /\ ctIdle /\ tIdle /\ idwIdle

\* lines 212-221: map() with its default dropifna, x, y and the empty matrix
GSetup ==
    /\ g_pc = "start"
    /\ gdata' = dropna(gdata, dropifna)
    /\ gx' = linspace(box[1], box[2], GridN)
    /\ gy' = linspace(box[3], box[4], GridN)
    /\ z' = [i \in 1..GridN |-> [j \in 1..GridN |-> None]]
    /\ calls' = [i \in 1..GridN |-> [j \in 1..GridN |-> 0]]
    /\ g_i' = 1 /\ g_j' = 1
    /\ g_pc' = "loop"
    /\ UNCHANGED <<gcolumn, box, gp, dmVars, ctVars, tVars, idwVars>>

\* the call of line 224 with the coordinates exchanged
impute_swapped(i, j) == idw(gdata, gx[i], gy[j], gp, gcolumn)

\* lines 214-216 and the call of line 224 for row i, column j
impute_f(i, j) == idw(gdata, gx[j], gy[i], gp, gcolumn)

\* line 224 for one node, then the next j, or the next i after the last j
GStep ==
    /\ g_pc = "loop" /\ g_i <= Len(gy)
    /\ LET r == impute_f(g_i, g_j)
       IN  ~r.raised /\ z' = [z EXCEPT ![g_i][g_j] = r.value]
    /\ calls' = [calls EXCEPT ![g_i][g_j] = @ + 1]
    /\ g_j' = IF g_j = Len(gx) THEN 1 ELSE g_j + 1
    /\ g_i' = IF g_j = Len(gx) THEN g_i + 1 ELSE g_i
    /\ UNCHANGED <<gdata, gcolumn, box, gp, gx, gy, g_pc, dmVars, ctVars, tVars,
                   idwVars>>

\* line 224 on a frame left empty by map(): idw raises
GRaise ==
    /\ g_pc = "loop" /\ g_i <= Len(gy)
    /\ impute_f(g_i, g_j).raised
    /\ g_pc' = "ZeroDivisionError"
    /\ UNCHANGED <<gdata, gcolumn, box, gp, gx, gy, z, calls, g_i, g_j, dmVars,
                   ctVars, tVars, idwVars>>

\* the loop is left: z goes to contourf
GFilled ==
    /\ g_pc = "loop" /\ g_i > Len(gy)
    /\ g_pc' = "filled"
    /\ UNCHANGED <<gdata, gcolumn, box, gp, gx, gy, z, calls, g_i, g_j, dmVars,
                   ctVars, tVars, idwVars>>

NextGrid == GSetup \/ GStep \/ GRaise \/ GFilled

SpecGrid == InitGrid /\ [][NextGrid]_vars

\* node (i, j) comes before the position of the loop, y outer and x inner
Visited(i, j) == i < g_i \/ (i = g_i /\ j < g_j)

\* v runs from lo to hi, both included, in GridN increasing steps
Spanned(v, lo, hi) ==
    /\ Len(v) = GridN
    /\ v[1] = RInt(lo) /\ v[GridN] = RInt(hi)
    /\ \A k \in 1..(GridN - 1) : RLeq(v[k], v[k + 1]) /\ v[k] # v[k + 1]

\* C9: the grid loop fills an n x n matrix with z[i][j] = estimate(x[j], y[i]),
\* y the row and x the column, one call per node in row-major order and no
\* node left out; x and y span the box with both ends included.
C9_GridFilled ==
    g_pc \in {"loop", "filled", "ZeroDivisionError"} =>
        /\ Spanned(gx, box[1], box[2])
        /\ Spanned(gy, box[3], box[4])
        /\ Len(z) = GridN
        /\ \A i \in 1..GridN : Len(z[i]) = GridN
        /\ \A i, j \in 1..GridN :
              /\ calls[i][j] = IF Visited(i, j) THEN 1 ELSE 0
              /\ Visited(i, j) => z[i][j] = idw(gdata, gx[j], gy[i], gp, gcolumn).value
        /\ g_pc = "filled" => \A i, j \in 1..GridN : Visited(i, j)

\* a filled matrix whose corner nodes differ across the diagonal
C9_Witness ==
    /\ g_pc = "filled"
    /\ IsNumber(z[1][GridN]) /\ IsNumber(z[GridN][1])
    /\ z[1][GridN] # z[GridN][1]

====
